---- MODULE Spec2Model ----
(***************************************************************************)
(* Model of scripts/automations/get_match_tickets_info.py: one invocation  *)
(* of main(): fetch with retry, status check, diff against the known       *)
(* ticket ids, SMS notification with webhook fallback.                     *)
(*                                                                         *)
(* Python strings whose characters matter (ticket ids, KNOWN_TICKET_IDS)   *)
(* are sequences of one-character strings; a character a TLA+ string       *)
(* cannot hold is written as its code point ("U+00A0") and is one element *)
(* of the sequence.  JSON values are records [t, n, s] with t in           *)
(* {"absent", "null", "int", "str"}.                                       *)
(***************************************************************************)
EXTENDS Integers, Sequences, FiniteSets, TLC

VARIABLES
    STOP_EXECUTION,   \* module constant, line 35
    DEBUG_MODE,       \* module constant, line 33
    known_ids_str,    \* os.getenv("KNOWN_TICKET_IDS", ""), line 21
    pc,               \* position of main()
    attempts,         \* number of requests.get calls made by fetch_tickets
    gets,             \* how each requests.get round ended, in order
    waits,            \* sleeps of the retry wrapper between attempts
    fetch_exc,        \* exception fetch_tickets raised into main(), or "none"
    response,         \* value returned by fetch_tickets
    tickets,          \* response.get("children", [])
    diff_started,     \* TRUE once line 150 (new_tickets = []) has run
    cursor,           \* number of tickets the for loop has consumed
    new_tickets,      \* the list built by the for loop
    sent,             \* message of every send_message call
    sms,              \* body of every client.messages.create call
    sms_raised,       \* TRUE once client.messages.create raised
    hook_calls,       \* argument of every send_webhook_notification call
    webhook_url,      \* os.getenv("WEBHOOK_URL") as read at line 65
    posts,            \* [payload, outcome] of every requests.post call
    logs,             \* severity of every logger call, in order
    exc               \* exception that left main(), or "none"

vars == <<STOP_EXECUTION, DEBUG_MODE, known_ids_str, pc, attempts, gets, waits,
          fetch_exc, response, tickets, diff_started, cursor, new_tickets,
          sent, sms, sms_raised, hook_calls, webhook_url, posts, logs, exc>>

----------------------------------------------------------------------------
(* Bounds of the model. *)

\* Longest "children" list the fetch returns.
MaxTickets == 3

----------------------------------------------------------------------------
(* Strings *)

\* the characters str.strip() removes: those for which str.isspace() holds
Whitespace ==
    { "\t", "\n", "U+000B", "\f", "\r",
      "U+001C", "U+001D", "U+001E", "U+001F", " ",
      "U+0085", "U+00A0", "U+1680",
      "U+2000", "U+2001", "U+2002", "U+2003", "U+2004", "U+2005",
      "U+2006", "U+2007", "U+2008", "U+2009", "U+200A",
      "U+2028", "U+2029", "U+202F", "U+205F", "U+3000" }

DigitChar == <<"0", "1", "2", "3", "4", "5", "6", "7", "8", "9">>

RECURSIVE Digits(_)
\* str(n) for a non-negative int
Digits(n) ==
    IF n < 10 THEN <<DigitChar[n + 1]>>
    ELSE Digits(n \div 10) \o <<DigitChar[(n % 10) + 1]>>

RECURSIVE LStrip(_)
LStrip(s) ==
    IF s # <<>> /\ Head(s) \in Whitespace THEN LStrip(Tail(s)) ELSE s

RECURSIVE RStrip(_)
RStrip(s) ==
    IF s # <<>> /\ s[Len(s)] \in Whitespace
    THEN RStrip(SubSeq(s, 1, Len(s) - 1))
    ELSE s

\* str.strip()
Strip(s) == RStrip(LStrip(s))

RECURSIVE Split(_, _)
\* str.split(sep): the fields between the separators, empty fields kept
Split(s, sep) ==
    IF \A i \in 1..Len(s) : s[i] # sep THEN <<s>>
    ELSE LET k == CHOOSE i \in 1..Len(s) :
                      s[i] = sep /\ \A j \in 1..(i - 1) : s[j] # sep
         IN <<SubSeq(s, 1, k - 1)>> \o Split(SubSeq(s, k + 1, Len(s)), sep)

\* {tid.strip() for tid in known_ids_str.split(",") if tid.strip()}
KnownTicketIds(str) ==
    LET parts == Split(str, ",")
    IN {Strip(parts[i]) : i \in {j \in 1..Len(parts) : Strip(parts[j]) # <<>>}}


----------------------------------------------------------------------------
(* JSON values and tickets *)

JAbsent == [t |-> "absent", n |-> 0, s |-> <<>>]
JNull   == [t |-> "null", n |-> 0, s |-> <<>>]
JInt(n) == [t |-> "int", n |-> n, s |-> <<>>]
JStr(s) == [t |-> "str", n |-> 0, s |-> s]

\* str(d.get(key)): a missing key and a null both give None, str(None) = "None"
StrOfGet(v) ==
    CASE v.t = "int" -> Digits(v.n)
      [] v.t = "str" -> v.s
      [] OTHER -> <<"N", "o", "n", "e">>

\* str(ticket.get("idx")).strip(), line 154
TicketId(ticket) == Strip(StrOfGet(ticket.idx))


\* format(d.get(key, default)) inside an f-string, lines 74-76
FormatGet(v, default) ==
    CASE v.t = "absent" -> default
      [] v.t = "int" -> Digits(v.n)
      [] v.t = "str" -> v.s
      [] OTHER -> <<"N", "o", "n", "e">>

Dict(idx, title) == [shape |-> "dict", idx |-> idx, title |-> title]

\* an element of "children" that is not a JSON object (no .get method);
\* also what iterating a string or a JSON object yields: its characters,
\* its keys
NotADict == [shape |-> "other", idx |-> JAbsent, title |-> JAbsent]

\* The ticket records the fetch may return.
TicketPool ==
    { Dict(JInt(1), JStr(<<"A">>)),
      Dict(JStr(<<"2">>), JStr(<<"B">>)),
      Dict(JStr(<<"\t", "1", "\r", "U+00A0">>), JStr(<<"C">>)),
      Dict(JAbsent, JAbsent),
      Dict(JInt(12), JNull),
      NotADict }

RECURSIVE SeqsUpTo(_, _)
\* all sequences over S of length at most n
SeqsUpTo(S, n) ==
    IF n = 0 THEN {<<>>}
    ELSE LET shorter == SeqsUpTo(S, n - 1)
         IN shorter \cup {Append(q, x) : q \in shorter, x \in S}

TicketLists == SeqsUpTo(TicketPool, MaxTickets)

\* What req.json() may return: a JSON object with an optional "status" and
\* an optional "children", or any other JSON value.  "children" is a list
\* ("list"), a string or a JSON object ("iterable": the for loop of line 153
\* runs over its characters or keys, held in children), or a value that
\* cannot be iterated ("other": null, a number, a boolean).
Body(status, children_shape, children) ==
    [shape |-> "dict", status |-> status,
     children_shape |-> children_shape, children |-> children]

NotAnObject ==
    [shape |-> "other", status |-> "absent",
     children_shape |-> "absent", children |-> <<>>]

NoResponse ==
    [shape |-> "none", status |-> "absent",
     children_shape |-> "absent", children |-> <<>>]

Bodies ==
    {NotAnObject}
    \cup {Body(st, "absent", <<>>) : st \in {"absent", "true", "false"}}
    \cup {Body(st, "other", <<>>) : st \in {"absent", "true", "false"}}
    \cup {Body(st, "iterable", ts) : st \in {"absent", "true", "false"},
                                     ts \in SeqsUpTo({NotADict}, MaxTickets)}
    \cup {Body(st, "list", ts) : st \in {"absent", "true", "false"},
                                 ts \in TicketLists}

\* Values of the KNOWN_TICKET_IDS environment variable.
KnownIdStrs ==
    { <<>>,
      <<"1">>,
      <<" ", "1", "\r", ",", ",", "2", ",", "U+3000", "\n">>,
      <<"N", "o", "n", "e", ",", "1", "2">>,
      <<"1", ",", "2", ",", "1", "2", ",", "N", "o", "n", "e">> }

\* the sets line 22 builds for the values the environment variable takes
KnownIdsOf == [str \in KnownIdStrs |-> KnownTicketIds(str)]

\* the module constant, built once from known_ids_str when the module loads
KNOWN_TICKET_IDS ==
    IF known_ids_str \in DOMAIN KnownIdsOf
    THEN KnownIdsOf[known_ids_str]
    ELSE KnownTicketIds(known_ids_str)

----------------------------------------------------------------------------
(* Messages *)

\* the literal "FAILED", lines 137, 141, 146
FAILED == <<"F", "A", "I", "L", "E", "D">>

\* the literal that follows the count in the f-string of line 165;
\* "<NEW>" stands for the single emoji character
TicketsSuffix == <<" ", "<NEW>", " ", "T", "I", "C", "K", "E", "T", "S">>

\* f"{len(new_tickets)} <NEW> TICKETS", line 165
NewTicketMessage(new) == Digits(Len(new)) \o TicketsSuffix

\* lines 72-78: the header line and one line per ticket
WebhookMessage(new) ==
    <<[title |-> <<"header">>, id |-> <<>>]>>
    \o [i \in 1..Len(new) |->
          [title |-> FormatGet(new[i].title, <<"Unknown">>),
           id    |-> FormatGet(new[i].idx, <<"Unknown">>)]]

\* A webhook URL is the sequence of its parts; None is the unset variable.
UrlNone == [is_none |-> TRUE, parts |-> <<>>]
Url(parts) == [is_none |-> FALSE, parts |-> parts]
NotRead == [is_none |-> TRUE, parts |-> <<"not read">>]

WebhookUrls ==
    { UrlNone,
      Url(<<>>),
      Url(<<"https://", "discord.com", "/api/webhooks/1">>),
      Url(<<"https://hooks.", "slack.com", "/services/1">>),
      Url(<<"https://", "example.org", "/hook">>) }

\* "needle" in webhook_url
Contains(url, needle) == \E i \in 1..Len(url.parts) : url.parts[i] = needle

\* a test that takes only an unset variable for unconfigured
Falsy_NoneOnly(url) == url.is_none

\* not webhook_url, line 67
Falsy(url) == url.is_none \/ url.parts = <<>>

\* lines 82-97
Payload(url, new) ==
    IF Contains(url, "discord.com")
    THEN [format |-> "discord", message |-> WebhookMessage(new), tickets |-> <<>>]
    ELSE IF Contains(url, "slack.com")
    THEN [format |-> "slack", message |-> WebhookMessage(new), tickets |-> <<>>]
    ELSE [format |-> "generic", message |-> WebhookMessage(new), tickets |-> new]

----------------------------------------------------------------------------
(* The retry wrapper of fetch_tickets, lines 107-114 *)

\* a wrapper that allows one attempt more
StopAfterAttempt_OneMore == 3 + 1

\* stop_after_attempt(3)
StopAfterAttempt == 3

\* wait_exponential(multiplier=1, min=2, max=10)
WaitMultiplier == 1
WaitMin == 2
WaitMax == 10

Min2(a, b) == IF a < b THEN a ELSE b
Max2(a, b) == IF a > b THEN a ELSE b

\* a backoff whose exponent starts at 1 instead of 0
WaitExponential_ExponentFromOne(attempt_number) ==
    Max2(Max2(0, WaitMin),
         Min2(WaitMultiplier * 2 ^ attempt_number, WaitMax))

\* the sleep after failed attempt number attempt_number:
\* multiplier * 2 ** (attempt_number - 1), clamped to [min, max]
WaitExponential(attempt_number) ==
    Max2(Max2(0, WaitMin),
         Min2(WaitMultiplier * 2 ^ (attempt_number - 1), WaitMax))

\* What one requests.get / raise_for_status / json round can do.  The first
\* three failures are subclasses of requests.RequestException; "other_error"
\* is any exception that is not one.
GetOutcomes == {"ok", "connection_error", "timeout", "http_error", "other_error"}

\* how a round ended: "ok", "transient" (a RequestException) or "other"
OutcomeClass(outcome) ==
    IF outcome = "ok" THEN "ok"
    ELSE IF outcome = "other_error" THEN "other"
    ELSE "transient"

\* a retry condition that accepts every exception
IsRequestException_AnyException(outcome) == outcome # "ok"

\* retry_if_exception_type(requests.RequestException)
IsRequestException(outcome) ==
    outcome \in {"connection_error", "timeout", "http_error"}

----------------------------------------------------------------------------
(* send_message, lines 42-60 *)

\* What client.messages.create can do.
SmsOutcomes == {"ok", "raise"}

\* a send_message that makes the Twilio call whatever DEBUG_MODE says
SendMessageRaises_IgnoringDebug(outcome) == outcome = "raise"

\* send_message raises iff the Twilio call is made and raises
SendMessageRaises(outcome) == ~DEBUG_MODE /\ outcome = "raise"

\* the logger calls of one send_message call
SendMessageLogs(outcome) ==
    IF DEBUG_MODE THEN <<"info", "info">>
    ELSE IF outcome = "raise" THEN <<"info">>
    ELSE <<"info", "info">>

\* the effect of send_message(message) on the record of calls
SendMessage(message, outcome) ==
    /\ sent' = Append(sent, message)
    /\ sms' = IF DEBUG_MODE THEN sms ELSE Append(sms, message)
    /\ sms_raised' = (sms_raised \/ SendMessageRaises(outcome))

----------------------------------------------------------------------------
(* main(), lines 126-183 *)

Init ==
    /\ STOP_EXECUTION \in BOOLEAN
    /\ DEBUG_MODE \in BOOLEAN
    /\ known_ids_str \in KnownIdStrs
    /\ pc = "start"
    /\ attempts = 0
    /\ gets = <<>>
    /\ waits = <<>>
    /\ fetch_exc = "none"
    /\ response = NoResponse
    /\ tickets = <<>>
    /\ diff_started = FALSE
    /\ cursor = 0
    /\ new_tickets = <<>>
    /\ sent = <<>>
    /\ sms = <<>>
    /\ sms_raised = FALSE
    /\ hook_calls = <<>>
    /\ webhook_url = NotRead
    /\ posts = <<>>
    /\ logs = <<>>
    /\ exc = "none"

\* a guard that never stops the run
ShouldStop_Never == FALSE

\* if STOP_EXECUTION, line 129
ShouldStop == STOP_EXECUTION

\* lines 127-131
MainStart ==
    /\ pc = "start"
    /\ IF ShouldStop
       THEN /\ logs' = logs \o <<"info", "info">>
            /\ pc' = "done"
       ELSE /\ logs' = Append(logs, "info")
            /\ pc' = "fetch"
    /\ UNCHANGED <<STOP_EXECUTION, DEBUG_MODE, known_ids_str, attempts, gets,
                   waits, diff_started,
                   fetch_exc, response, tickets, cursor, new_tickets, sent,
                   sms, sms_raised, hook_calls, webhook_url, posts, exc>>

\* One attempt of fetch_tickets (lines 121-123) and the decision of the
\* retry wrapper (lines 107-114).  When the attempts are used up the wrapper
\* raises its own RetryError, which is not a RequestException; an exception
\* that is not retried is raised as it is.
FetchAttempt ==
    /\ pc = "fetch"
    /\ \E outcome \in GetOutcomes :
         /\ attempts' = attempts + 1
         /\ gets' = Append(gets, OutcomeClass(outcome))
         /\ IF outcome = "ok"
            THEN /\ response' \in Bodies
                 /\ pc' = "fetched"
                 /\ UNCHANGED <<waits, fetch_exc, logs>>
            ELSE /\ IF ~IsRequestException(outcome)
                    THEN /\ fetch_exc' = "Exception"
                         /\ pc' = "fetch_failed"
                         /\ UNCHANGED <<waits, logs>>
                    ELSE IF attempts + 1 >= StopAfterAttempt
                    THEN /\ fetch_exc' = "RetryError"
                         /\ pc' = "fetch_failed"
                         /\ UNCHANGED <<waits, logs>>
                    ELSE /\ waits' = Append(waits, WaitExponential(attempts + 1))
                         /\ logs' = Append(logs, "warning")
                         /\ pc' = "fetch"
                         /\ UNCHANGED fetch_exc
                 /\ UNCHANGED response
    /\ UNCHANGED <<STOP_EXECUTION, DEBUG_MODE, known_ids_str, tickets,
                   diff_started, cursor,
                   new_tickets, sent, sms, sms_raised, hook_calls, webhook_url,
                   posts, exc>>

\* a failure handler that falls back to the webhook when the SMS raises
FetchFailed_WithFallback ==
    /\ pc = "fetch_failed"
    /\ \E outcome \in SmsOutcomes :
         /\ SendMessage(FAILED, outcome)
         /\ logs' = logs \o <<"error">> \o SendMessageLogs(outcome)
         /\ pc' = IF SendMessageRaises(outcome) THEN "webhook" ELSE "done"
    /\ UNCHANGED <<STOP_EXECUTION, DEBUG_MODE, known_ids_str, attempts, gets,
                   waits, diff_started, fetch_exc, response, tickets, cursor,
                   new_tickets, hook_calls, webhook_url, posts, exc>>

\* lines 135-142: both handlers log an error, send "FAILED" and return; an
\* exception of send_message is raised here outside any try block
FetchFailed ==
    /\ pc = "fetch_failed"
    /\ \E outcome \in SmsOutcomes :
         /\ SendMessage(FAILED, outcome)
         /\ logs' = logs \o <<"error">> \o SendMessageLogs(outcome)
         /\ IF SendMessageRaises(outcome)
            THEN pc' = "raised" /\ exc' = "SmsError"
            ELSE pc' = "done" /\ UNCHANGED exc
    /\ UNCHANGED <<STOP_EXECUTION, DEBUG_MODE, known_ids_str, attempts, gets,
                   waits, diff_started,
                   fetch_exc, response, tickets, cursor, new_tickets,
                   hook_calls, webhook_url, posts>>

\* a test that also takes a missing status for a failure
StatusIsFalse_OrMissing(r) == r.status # "true"

\* response.get("status", True) is False, line 144
StatusIsFalse(r) == r.status = "false"

\* lines 144-150: response.get on a value that is no dict raises
\* AttributeError; status False sends "FAILED"; otherwise the loop is set up
\* (iterating a "children" value that cannot be iterated raises TypeError;
\* a string or a JSON object is iterated like a list)
CheckStatus ==
    /\ pc = "fetched"
    /\ \E outcome \in SmsOutcomes :
         IF response.shape # "dict"
         THEN /\ outcome = "ok"
              /\ pc' = "raised" /\ exc' = "AttributeError"
              /\ UNCHANGED <<tickets, diff_started, sent, sms, sms_raised, logs>>
         ELSE IF StatusIsFalse(response)
         THEN /\ SendMessage(FAILED, outcome)
              /\ logs' = logs \o <<"error">> \o SendMessageLogs(outcome)
              /\ IF SendMessageRaises(outcome)
                 THEN pc' = "raised" /\ exc' = "SmsError"
                 ELSE pc' = "done" /\ UNCHANGED exc
              /\ UNCHANGED <<tickets, diff_started>>
         ELSE IF response.children_shape = "other"
         THEN /\ outcome = "ok"
              /\ diff_started' = TRUE
              /\ pc' = "raised" /\ exc' = "TypeError"
              /\ UNCHANGED <<tickets, sent, sms, sms_raised, logs>>
         ELSE /\ outcome = "ok"
              /\ tickets' = response.children
              /\ diff_started' = TRUE
              /\ pc' = "loop"
              /\ UNCHANGED <<sent, sms, sms_raised, logs, exc>>
    /\ UNCHANGED <<STOP_EXECUTION, DEBUG_MODE, known_ids_str, attempts, gets,
                   waits, fetch_exc, response, cursor, new_tickets,
                   hook_calls, webhook_url, posts>>

\* a membership test on the id that was not trimmed
IsKnown_Untrimmed(ticket) == StrOfGet(ticket.idx) \in KNOWN_TICKET_IDS

\* ticket_id in KNOWN_TICKET_IDS, line 157
IsKnown(ticket) == TicketId(ticket) \in KNOWN_TICKET_IDS

\* new_tickets.append(ticket), line 162
AppendTicket(new, ticket) == Append(new, ticket)

\* a loop that adds the id of every new ticket to the known ids
LoopStep_RemembersIds ==
    /\ pc = "loop"
    /\ cursor < Len(tickets)
    /\ LET ticket == tickets[cursor + 1]
       IN IF ticket.shape # "dict"
          THEN /\ pc' = "raised" /\ exc' = "AttributeError"
               /\ UNCHANGED <<cursor, new_tickets, logs, known_ids_str>>
          ELSE /\ cursor' = cursor + 1
               /\ IF IsKnown(ticket)
                  THEN /\ logs' = Append(logs, "debug")
                       /\ UNCHANGED <<new_tickets, known_ids_str>>
                  ELSE /\ logs' = Append(logs, "info")
                       /\ new_tickets' = AppendTicket(new_tickets, ticket)
                       /\ known_ids_str' =
                              known_ids_str \o <<",">> \o TicketId(ticket)
               /\ UNCHANGED <<pc, exc>>
    /\ UNCHANGED <<STOP_EXECUTION, DEBUG_MODE, attempts, gets, waits,
                   diff_started, fetch_exc, response, tickets, sent, sms,
                   sms_raised, hook_calls, webhook_url, posts>>

\* one iteration of the for loop, lines 153-162
LoopStep ==
    /\ pc = "loop"
    /\ cursor < Len(tickets)
    /\ LET ticket == tickets[cursor + 1]
       IN IF ticket.shape # "dict"
          THEN /\ pc' = "raised" /\ exc' = "AttributeError"
               /\ UNCHANGED <<cursor, new_tickets, logs>>
          ELSE /\ cursor' = cursor + 1
               /\ IF IsKnown(ticket)
                  THEN /\ logs' = Append(logs, "debug")
                       /\ UNCHANGED new_tickets
                  ELSE /\ logs' = Append(logs, "info")
                       /\ new_tickets' = AppendTicket(new_tickets, ticket)
               /\ UNCHANGED <<pc, exc>>
    /\ UNCHANGED <<STOP_EXECUTION, DEBUG_MODE, known_ids_str, attempts, gets,
                   waits, diff_started,
                   fetch_exc, response, tickets, sent, sms, sms_raised,
                   hook_calls, webhook_url, posts>>

\* a summary that counts every fetched ticket
SummaryMessage_AllTickets == NewTicketMessage(tickets)

\* the message main() hands to send_message at line 176
SummaryMessage == NewTicketMessage(new_tickets)

\* a guard that lets an empty list through
NothingToSend_Never == FALSE

\* not new_tickets, line 170
NothingToSend == new_tickets = <<>>

\* a main() that calls the fallback after every SMS attempt, raised or not
Notify_AlwaysWebhook ==
    /\ pc = "loop"
    /\ cursor = Len(tickets)
    /\ \E outcome \in SmsOutcomes :
         IF NothingToSend
         THEN /\ outcome = "ok"
              /\ logs' = logs \o <<"info", "info">>
              /\ pc' = "done"
              /\ UNCHANGED <<sent, sms, sms_raised>>
         ELSE /\ SendMessage(SummaryMessage, outcome)
              /\ IF SendMessageRaises(outcome)
                 THEN /\ logs' = logs \o <<"info">> \o SendMessageLogs(outcome)
                                      \o <<"error">>
                      /\ pc' = "webhook"
                 ELSE /\ logs' = logs \o <<"info">> \o SendMessageLogs(outcome)
                      /\ pc' = "webhook"
    /\ UNCHANGED <<STOP_EXECUTION, DEBUG_MODE, known_ids_str, attempts, gets,
                   waits, diff_started,
                   fetch_exc, response, tickets, cursor, new_tickets,
                   hook_calls, webhook_url, posts, exc>>

\* lines 165-178: after the loop; nothing is sent for an empty list,
\* otherwise the SMS is tried and its failure leads to the webhook
Notify ==
    /\ pc = "loop"
    /\ cursor = Len(tickets)
    /\ \E outcome \in SmsOutcomes :
         IF NothingToSend
         THEN /\ outcome = "ok"
              /\ logs' = logs \o <<"info", "info">>
              /\ pc' = "done"
              /\ UNCHANGED <<sent, sms, sms_raised>>
         ELSE /\ SendMessage(SummaryMessage, outcome)
              /\ IF SendMessageRaises(outcome)
                 THEN /\ logs' = logs \o <<"info">> \o SendMessageLogs(outcome)
                                      \o <<"error">>
                      /\ pc' = "webhook"
                 ELSE /\ logs' = logs \o <<"info">> \o SendMessageLogs(outcome)
                      /\ pc' = "done"
    /\ UNCHANGED <<STOP_EXECUTION, DEBUG_MODE, known_ids_str, attempts, gets,
                   waits, diff_started,
                   fetch_exc, response, tickets, cursor, new_tickets,
                   hook_calls, webhook_url, posts, exc>>

\* What requests.post / raise_for_status can do.  "http_error" is a response
\* with a 4xx/5xx status; the first three failures are RequestExceptions.
PostOutcomes == {"ok", "connection_error", "timeout", "http_error", "other_error"}

\* the logger calls of send_webhook_notification after the POST, lines 99-104
WebhookLogs(outcome) ==
    IF outcome = "ok" THEN <<"info">>
    ELSE IF IsRequestException(outcome) THEN <<"error">>
    ELSE <<>>

\* the handler of main(), lines 181-183
WebhookHandlerLogs(outcome) ==
    IF outcome # "ok" /\ ~IsRequestException(outcome)
    THEN <<"error", "critical">>
    ELSE <<>>

\* a fallback that is handed every fetched ticket
WebhookArgument_AllTickets == tickets

\* new_tickets=new_tickets, line 180
WebhookArgument == new_tickets

\* lines 179-183 with send_webhook_notification, lines 63-104
Webhook ==
    /\ pc = "webhook"
    /\ \E url \in WebhookUrls, outcome \in PostOutcomes :
         /\ hook_calls' = Append(hook_calls, WebhookArgument)
         /\ webhook_url' = url
         /\ IF Falsy(url)
            THEN /\ outcome = "ok"
                 /\ logs' = Append(logs, "warning")
                 /\ UNCHANGED posts
            ELSE /\ posts' = Append(posts, [payload |-> Payload(url, WebhookArgument),
                                            outcome |-> outcome])
                 /\ logs' = logs \o WebhookLogs(outcome)
                                 \o WebhookHandlerLogs(outcome)
         /\ pc' = "done"
    /\ UNCHANGED <<STOP_EXECUTION, DEBUG_MODE, known_ids_str, attempts, gets,
                   waits, diff_started,
                   fetch_exc, response, tickets, cursor, new_tickets, sent,
                   sms, sms_raised, exc>>

Next ==
    \/ MainStart
    \/ FetchAttempt
    \/ FetchFailed
    \/ CheckStatus
    \/ LoopStep
    \/ Notify
    \/ Webhook

Spec == Init /\ [][Next]_vars

\* main() is one synchronous thread and every external call returns or
\* raises within its timeout (timeout=60, lines 100 and 121), so a run that
\* can take a step does take it
FairSpec == Spec /\ WF_vars(Next)

----------------------------------------------------------------------------
(* Vocabulary of the properties *)

\* main() has returned or an exception has left it
Terminal == pc \in {"done", "raised"}

Range(q) == {q[i] : i \in 1..Len(q)}

AllTransient == <<"transient", "transient", "transient">>
TwoTransientThenOk == <<"transient", "transient", "ok">>

\* s is r without its leading and trailing whitespace
IsTrimOf(s, r) ==
    \E i \in 1..(Len(r) + 1), j \in 0..Len(r) :
        /\ s = SubSeq(r, i, j)
        /\ \A k \in 1..(i - 1) : r[k] \in Whitespace
        /\ \A k \in (j + 1)..Len(r) : r[k] \in Whitespace
        /\ s = <<>> \/ (s[1] \notin Whitespace /\ s[Len(s)] \notin Whitespace)

\* the ticket's stringified, trimmed idx is no member of the known-ID set
IsNewTicket(ticket) ==
    ~ \E k \in KNOWN_TICKET_IDS : IsTrimOf(k, StrOfGet(ticket.idx))

\* the subsequence of ts, in input order, of the new tickets
NewSubsequence(ts) == SelectSeq(ts, IsNewTicket)

\* the response is a JSON object whose children, if any, is a list of objects
WellFormed(r) ==
    /\ r.shape = "dict"
    /\ r.children_shape \in {"absent", "list"}
    /\ \A i \in 1..Len(r.children) : r.children[i].shape = "dict"

DigitValue(c) == CHOOSE d \in 0..9 : DigitChar[d + 1] = c

RECURSIVE ParseLeading(_, _)
\* the number written by the leading decimal digits of s
ParseLeading(s, acc) ==
    IF s # <<>> /\ Head(s) \in Range(DigitChar)
    THEN ParseLeading(Tail(s), 10 * acc + DigitValue(Head(s)))
    ELSE acc

----------------------------------------------------------------------------
(* C1 *)

\* C1: whatever the external calls do, no exception propagates out of
\* main(): every invocation ends by returning normally.
C1_NoExceptionLeavesMain == pc # "raised" /\ exc = "none"

----------------------------------------------------------------------------
(* C2 *)

\* C2: when all 3 fetch attempts fail with a transient error, the run makes
\* exactly one send_message call, with the fixed message "FAILED", calls the
\* webhook fallback zero times, computes no diff, and ends.
C2_RetryExhaustion ==
    gets = AllTransient =>
        /\ attempts = 3
        /\ pc \in {"fetch_failed", "done", "raised"}
        /\ fetch_exc = "RetryError"
        /\ hook_calls = <<>> /\ posts = <<>>
        /\ ~diff_started /\ cursor = 0 /\ new_tickets = <<>>
        /\ pc = "fetch_failed" => sent = <<>>
        /\ Terminal => /\ sent = <<FAILED>>
                       /\ sms = IF DEBUG_MODE THEN <<>> ELSE <<FAILED>>

C2_Witness ==
    /\ pc = "done"
    /\ gets = AllTransient
    /\ sms = <<FAILED>>

----------------------------------------------------------------------------
(* C3 *)

\* C3 as stated: at most 3 GET attempts, none after a successful one, and
\* after two transient failures and a successful third attempt the run
\* reaches the diff step and sends no failure notification.
C3_ThirdSuccessAlwaysDiffs ==
    /\ attempts <= 3
    /\ \A i \in 1..Len(gets) : gets[i] = "ok" => i = Len(gets)
    /\ (gets = TwoTransientThenOk /\ pc # "fetched" /\ response.shape = "dict")
           => diff_started /\ FAILED \notin Range(sent)

\* C3 amended: at most 3 GET attempts, none after an attempt that returns;
\* after two transient failures and a third attempt that returns, its result
\* reaches main(), and the run goes on to the diff step with no failure
\* notification exactly when the result is a JSON object whose status is not
\* False; a status-False result takes the failure path ("FAILED", no diff)
\* and a result that is no JSON object raises before the diff.
C3_RetryBound ==
    /\ attempts <= 3
    /\ Len(gets) = attempts
    /\ \A i \in 1..Len(gets) : gets[i] = "ok" => i = Len(gets)
    /\ gets = TwoTransientThenOk =>
         /\ fetch_exc = "none"
         /\ response # NoResponse
         /\ waits = <<WaitExponential(1), WaitExponential(2)>>
         /\ pc # "fetched" =>
              /\ diff_started <=>
                     (response.shape = "dict" /\ response.status # "false")
              /\ diff_started => FAILED \notin Range(sent)
              /\ (response.shape = "dict" /\ response.status = "false")
                     => sent = <<FAILED>> /\ hook_calls = <<>>
              /\ response.shape # "dict" => pc = "raised" /\ sent = <<>>

C3_Witness ==
    /\ gets = TwoTransientThenOk
    /\ attempts = 3
    /\ pc = "done"
    /\ diff_started
    /\ Len(tickets) = 2
    /\ sent = <<>>

----------------------------------------------------------------------------
(* C4 *)

\* C4: when the new-ticket list is non-empty and the SMS attempt raises,
\* send_webhook_notification is called exactly once, after the SMS attempt,
\* with the complete new-ticket list in input order; whatever the webhook
\* does, no exception leaves main().
C4_Fallback ==
    /\ hook_calls # <<>> => sms_raised /\ sent = <<SummaryMessage>>
    /\ pc = "webhook" => sms_raised /\ hook_calls = <<>> /\ new_tickets # <<>>
    /\ (Terminal /\ sms_raised /\ diff_started) =>
         /\ new_tickets # <<>>
         /\ hook_calls = <<NewSubsequence(tickets)>>
         /\ Len(posts) <= 1
         /\ \A i \in 1..Len(posts) :
                posts[i].payload.format = "generic"
                    => posts[i].payload.tickets = NewSubsequence(tickets)
         /\ pc = "done" /\ exc = "none"

C4_Witness ==
    /\ pc = "done"
    /\ sms_raised
    /\ Len(hook_calls) = 1
    /\ Len(hook_calls[1]) = 2
    /\ Len(tickets) = 3
    /\ Len(posts) = 1
    /\ posts[1].outcome = "other_error"

----------------------------------------------------------------------------
(* C5 *)

\* C5: whenever both the SMS attempt and the webhook POST fail, whatever the
\* kind of webhook failure, a critical-severity log is made before main()
\* returns.
C5_CriticalOnDoubleFailure ==
    (pc = "done" /\ sms_raised /\ posts # <<>> /\ posts[1].outcome # "ok")
        => "critical" \in Range(logs)

----------------------------------------------------------------------------
(* C6 *)

\* C6 as stated: a fetch failure that is no transient error means exactly
\* one GET attempt was made in the invocation.
C6_ExactlyOneAttempt ==
    "other" \in Range(gets) => attempts = 1

\* C6 amended: a fetch failure that is no RequestException is not retried:
\* no GET attempt follows it (it is the only attempt when it is the first,
\* but one or two transiently failed attempts may precede it) and the run
\* goes straight to the fetch-failure path: one "FAILED" message, no diff,
\* no webhook.
C6_NotRetried ==
    /\ \A i \in 1..Len(gets) : gets[i] = "other" => i = Len(gets)
    /\ (gets # <<>> /\ gets[1] = "other") => attempts = 1
    /\ "other" \in Range(gets) =>
         /\ pc \in {"fetch_failed", "done", "raised"}
         /\ fetch_exc = "Exception"
         /\ Len(waits) = attempts - 1
         /\ ~diff_started /\ hook_calls = <<>> /\ posts = <<>>
         /\ pc = "fetch_failed" => sent = <<>>
         /\ Terminal => sent = <<FAILED>>

C6_Witness ==
    /\ pc = "done"
    /\ gets = <<"other">>
    /\ attempts = 1
    /\ sent = <<FAILED>>

----------------------------------------------------------------------------
(* C7 *)

\* C7: with STOP_EXECUTION set, main() returns having made no GET, no
\* send_message call, no webhook call or POST and no diff.
C7_Disabled ==
    STOP_EXECUTION =>
        /\ pc \in {"start", "done"}
        /\ attempts = 0 /\ gets = <<>>
        /\ sent = <<>> /\ sms = <<>>
        /\ hook_calls = <<>> /\ posts = <<>>
        /\ ~diff_started /\ cursor = 0 /\ new_tickets = <<>>
        /\ exc = "none"

C7_Witness ==
    /\ STOP_EXECUTION
    /\ pc = "done"
    /\ ~DEBUG_MODE
    /\ KNOWN_TICKET_IDS = {}

----------------------------------------------------------------------------
(* C8 *)

\* C8: the new-ticket list main() builds is exactly the subsequence of the
\* fetched list, in input order, of the tickets whose stringified, trimmed
\* idx is no member of the known-ID set; it is empty iff every ticket's id
\* is in the set.
C8_Diff ==
    /\ pc = "loop" =>
         new_tickets = NewSubsequence(SubSeq(tickets, 1, cursor))
    /\ (pc \in {"webhook", "done"} /\ diff_started) =>
         /\ cursor = Len(tickets)
         /\ new_tickets = NewSubsequence(tickets)
         /\ new_tickets = <<>> <=>
                \A i \in 1..Len(tickets) :
                    \E k \in KNOWN_TICKET_IDS :
                        IsTrimOf(k, StrOfGet(tickets[i].idx))

C8_Witness ==
    /\ pc = "done"
    /\ diff_started
    /\ Len(tickets) = 3
    /\ Len(new_tickets) = 1
    /\ tickets[1].idx = JStr(<<"\t", "1", "\r", "U+00A0">>)
    /\ new_tickets[1] = tickets[2]

----------------------------------------------------------------------------
(* C9 *)

\* C9 as stated: when the fetch returned a response and every fetched
\* ticket's id is in the known-ID set, the run makes no send_message call
\* and no webhook call and returns normally.
C9_NoNotificationWheneverFetched ==
    (Terminal /\ "ok" \in Range(gets) /\ WellFormed(response)
       /\ \A i \in 1..Len(response.children) :
              ~IsNewTicket(response.children[i]))
        => sent = <<>> /\ hook_calls = <<>> /\ pc = "done"

\* C9 amended: when the fetch returned a JSON object whose status is not
\* False and every fetched ticket's id is in the known-ID set (an empty or
\* missing ticket list included), the run makes no send_message call, no
\* Twilio call, no webhook call and returns normally.
C9_NoNewTickets ==
    ("ok" \in Range(gets) /\ WellFormed(response)
       /\ response.status # "false"
       /\ \A i \in 1..Len(response.children) :
              ~IsNewTicket(response.children[i]))
        => /\ sent = <<>> /\ sms = <<>>
           /\ hook_calls = <<>> /\ posts = <<>>
           /\ exc = "none"
           /\ pc \in {"fetched", "loop", "done"}

C9_Witness ==
    /\ pc = "done"
    /\ diff_started
    /\ Len(tickets) = 2
    /\ new_tickets = <<>>
    /\ sent = <<>>

----------------------------------------------------------------------------
(* C10 *)

\* C10: when the diff has produced a non-empty new-ticket list, exactly one
\* send_message call is made and the number its message starts with is the
\* length of the new-ticket list.
C10_SummaryCount ==
    (pc \in {"webhook", "done"} /\ new_tickets # <<>>) =>
        /\ Len(sent) = 1
        /\ ParseLeading(sent[1], 0) = Len(new_tickets)
        /\ sent[1] = Digits(Len(new_tickets)) \o TicketsSuffix
        /\ sms = IF DEBUG_MODE THEN <<>> ELSE sent

C10_Witness ==
    /\ pc = "done"
    /\ Len(tickets) = 3
    /\ Len(new_tickets) = 2
    /\ sms = <<NewTicketMessage(new_tickets)>>
    /\ ~sms_raised

----------------------------------------------------------------------------
(* C11 *)

\* C11: a fetched response whose status is explicitly False is handled like
\* an exhausted fetch: one send_message call with "FAILED", no webhook call,
\* no diff, no further GET attempt; a response without a status field is
\* taken as successful and goes on to the diff step.
C11_StatusFalse ==
    /\ (response.shape = "dict" /\ response.status = "false") =>
         /\ pc \in {"fetched", "done", "raised"}
         /\ gets[Len(gets)] = "ok"
         /\ ~diff_started /\ cursor = 0 /\ new_tickets = <<>>
         /\ hook_calls = <<>> /\ posts = <<>>
         /\ pc = "fetched" => sent = <<>>
         /\ Terminal => /\ sent = <<FAILED>>
                        /\ sms = IF DEBUG_MODE THEN <<>> ELSE <<FAILED>>
    /\ (response.shape = "dict" /\ response.status = "absent"
          /\ pc # "fetched") =>
         /\ diff_started
         /\ FAILED \notin Range(sent)

C11_Witness ==
    /\ pc = "done"
    /\ response.shape = "dict"
    /\ response.status = "false"
    /\ Len(response.children) = 2
    /\ gets = <<"transient", "ok">>
    /\ sms = <<FAILED>>

----------------------------------------------------------------------------
(* C12 *)

\* C12: with DEBUG_MODE set no run makes a Twilio call or a webhook POST on
\* any path; every send_message call only logs its message and returns, so
\* the run goes on as a run whose SMS was delivered: it returns right after
\* the call, never enters the webhook fallback and no SMS exception leaves
\* main().
C12_DryRun ==
    DEBUG_MODE =>
        /\ sms = <<>> /\ ~sms_raised
        /\ hook_calls = <<>> /\ posts = <<>>
        /\ webhook_url = NotRead
        /\ pc # "webhook"
        /\ exc # "SmsError"
        /\ Len(sent) <= 1
        /\ sent # <<>> =>
             /\ pc = "done"
             /\ Len(logs) >= 2
             /\ logs[Len(logs) - 1] = "info" /\ logs[Len(logs)] = "info"

C12_Witness ==
    /\ DEBUG_MODE
    /\ pc = "done"
    /\ Len(new_tickets) = 2
    /\ sent = <<NewTicketMessage(new_tickets)>>
    /\ sms = <<>>

----------------------------------------------------------------------------
(* C13 *)

\* C13: the diff mutates nothing and keeps no hidden state: no step of
\* main() changes the known-ID set, and once the diff has started no step
\* changes the fetched response or the ticket list; so computing the
\* new-ticket list again from the ticket list and the known-ID set as they
\* are after the run gives the list the run built.
C13_DiffFrame ==
    /\ [][ /\ known_ids_str' = known_ids_str
            /\ diff_started => (tickets' = tickets /\ response' = response)
          ]_vars
    /\ [](  (diff_started /\ pc \in {"webhook", "done"}) =>
               /\ tickets = response.children
               /\ new_tickets = NewSubsequence(response.children) )

C13_Witness ==
    /\ pc = "done"
    /\ diff_started
    /\ Len(tickets) = 3
    /\ Len(new_tickets) = 2
    /\ tickets = response.children
    /\ KNOWN_TICKET_IDS # {}

----------------------------------------------------------------------------
(* C14 *)

\* C14 as stated: the first wait is 2, each following wait is double the
\* one before, and no wait exceeds 10: the two waits are 2 and then 4.
C14_Doubling ==
    /\ \A i \in 1..Len(waits) : waits[i] <= 10
    /\ Len(waits) >= 1 => waits[1] = 2
    /\ \A i \in 2..Len(waits) : waits[i] = 2 * waits[i - 1]

\* C14 amended: the wait after failed attempt n is 2^(n-1) time-units raised
\* to the minimum of 2 and capped at 10; there is one wait after every
\* transiently failed attempt but the third, and within the 3-attempt limit
\* the two waits are 2 and then 2.
C14_Backoff ==
    /\ Len(waits) <= 2
    /\ Len(waits) =
          Cardinality({i \in 1..Len(gets) : gets[i] = "transient" /\ i < 3})
    /\ \A i \in 1..Len(waits) :
          /\ waits[i] = (IF 2 ^ (i - 1) < 2 THEN 2
                         ELSE IF 2 ^ (i - 1) > 10 THEN 10 ELSE 2 ^ (i - 1))
          /\ waits[i] = 2
          /\ waits[i] <= 10

C14_Witness ==
    /\ waits = <<2, 2>>
    /\ gets = <<"transient", "transient", "ok">>
    /\ pc = "done"

----------------------------------------------------------------------------
(* C15 *)

\* C15: every invocation of main() terminates: with every external call
\* returning or raising, each run reaches its end (a return, or an exception
\* leaving main), having made at most 3 GET attempts, at most one
\* send_message call and Twilio call, and at most one webhook call and POST.
C15_Terminates ==
    /\ <>Terminal
    /\ [](/\ attempts <= 3
          /\ Len(sent) <= 1 /\ Len(sms) <= 1
          /\ Len(hook_calls) <= 1 /\ Len(posts) <= 1
          /\ cursor <= Len(tickets))

C15_Witness ==
    /\ pc = "done"
    /\ attempts = 3
    /\ Len(sms) = 1
    /\ Len(posts) = 1
    /\ cursor = 3

----------------------------------------------------------------------------
(* C16 *)

\* C16: a webhook call, and so a webhook POST, happens only after the SMS
\* attempt for a non-empty new-ticket list has raised in the same invocation:
\* the one message handed to send_message before it is the summary of a
\* non-empty new_tickets, Twilio was called with it and raised, the fetch
\* raised nothing and the status was not False; the fallback is entered at
\* most once, and a POST is made only by the step that runs the fallback.
C16_WebhookOnlyAfterFailedSms ==
    /\ []((pc = "webhook" \/ hook_calls # <<>> \/ posts # <<>>) =>
            /\ sms_raised
            /\ ~DEBUG_MODE
            /\ new_tickets # <<>>
            /\ sent = <<NewTicketMessage(new_tickets)>>
            /\ sms = sent
            /\ FAILED \notin Range(sent)
            /\ fetch_exc = "none"
            /\ ~StatusIsFalse(response)
            /\ diff_started /\ cursor = Len(tickets)
            /\ Len(hook_calls) <= 1 /\ Len(posts) <= Len(hook_calls))
    /\ [][posts' # posts => (pc = "webhook" /\ sms_raised /\ posts = <<>>)]_vars

C16_Witness ==
    /\ pc = "done"
    /\ Len(posts) = 1
    /\ posts[1].outcome = "ok"
    /\ sms_raised
    /\ Len(new_tickets) = 2

----------------------------------------------------------------------------
(* C17 *)

\* C17: when the SMS for the new tickets raised and WEBHOOK_URL is unset or
\* empty, the fallback makes no HTTP POST and returns normally, emitting one
\* log record, the warning of line 68: main() ends by returning with new
\* tickets found, nothing delivered on any channel (the one Twilio call
\* raised, no POST was made) and no critical log.
C17_NoUrlNoPost ==
    /\ []((pc = "done" /\ sms_raised /\ hook_calls # <<>>
           /\ webhook_url \in {UrlNone, Url(<<>>)}) =>
            /\ posts = <<>>
            /\ exc = "none"
            /\ new_tickets # <<>>
            /\ hook_calls = <<new_tickets>>
            /\ sms = <<NewTicketMessage(new_tickets)>>
            /\ "critical" \notin Range(logs)
            /\ logs[Len(logs)] = "warning")
    /\ [][(pc = "webhook" /\ webhook_url' \in {UrlNone, Url(<<>>)}) =>
            /\ logs' = Append(logs, "warning")
            /\ posts' = posts /\ posts = <<>>
            /\ exc' = exc
            /\ pc' = "done"]_vars

C17_Witness ==
    /\ pc = "done"
    /\ sms_raised
    /\ webhook_url = Url(<<>>)
    /\ hook_calls # <<>>
    /\ Len(new_tickets) = 2
    /\ posts = <<>>

====
